---- MODULE Spec2Model ----
(***************************************************************************)
(* State-machine model of the user-operation construction and sponsorship  *)
(* pipeline of privy-io/base-paymaster-example: the hex normalizer, the    *)
(* gas buffering policy, the paymaster sponsorship client, the operation   *)
(* encoder and hasher, the signer and the submission client, as driven by  *)
(* the dashboard's onMint handler.                                         *)
(*                                                                         *)
(* JavaScript values are records [t, s, b, n, e]: t is the runtime type,   *)
(* s the characters of a string, b the bytes of a Uint8Array, n the value  *)
(* of a bigint/number, e the message of a thrown Error.  Strings are       *)
(* sequences of one-character strings so that the hexadecimal conversions  *)
(* can be computed digit by digit.                                         *)
(***************************************************************************)
EXTENDS Integers, Sequences, FiniteSets, TLC

VARIABLES
    \* React state of SmartAccountProvider and the position of createSmartWallet
    eoa, smartAccountSigner, smartAccountProvider, smartAccountAddress,
    smartAccountReady, cswPc,
    \* the embedded wallet useWallets reports, and the createSmartWallet runs started
    \* since the provider mounted when that wallet may change: the wallet each was
    \* given and its position
    embeddedWallet, runs,
    \* React state of DashboardPage
    isMinting, toast,
    \* one onMint invocation: its position, its local constants, its outcome
    pc, initialUserOp, formattedUserOp, bufferedUserOp, userOpWithPaymaster,
    signedUserOp, userOpHash, transactionHash, error,
    \* the stages the invocation has started, in order, how many of them have
    \* returned a result, what it handed to its collaborators and what the signer
    \* answered
    calls, returned, paymasterRequest, signerMessage, signerResult, submittedUserOp,
    waitHandle,
    \* harness of the pure functions: the function applied, its arguments, its results
    fn, arg, arg2, ret, ret2

walletVars == <<eoa, smartAccountSigner, smartAccountProvider, smartAccountAddress,
                smartAccountReady, cswPc, embeddedWallet, runs>>
pageVars == <<isMinting, toast>>
mintVars == <<pc, initialUserOp, formattedUserOp, bufferedUserOp, userOpWithPaymaster,
              signedUserOp, userOpHash, transactionHash, error>>
ioVars == <<calls, returned, paymasterRequest, signerMessage, signerResult,
            submittedUserOp, waitHandle>>
fnVars == <<fn, arg, arg2, ret, ret2>>
vars == <<walletVars, pageVars, mintVars, ioVars, fnVars>>

(***************************************************************************)
(* Bounds of the model.                                                    *)
(***************************************************************************)
\* longest input string given to the normalizer
MaxStrLen == 4
\* longest Uint8Array given to the normalizer
MaxBytesLen == 2
\* largest integer (and largest byte) given to the normalizer
MaxInt == 17

(***************************************************************************)
(* JavaScript values.                                                      *)
(***************************************************************************)
Undefined == [t |-> "undefined", s |-> <<>>, b |-> <<>>, n |-> 0, e |-> ""]
Null == [t |-> "null", s |-> <<>>, b |-> <<>>, n |-> 0, e |-> ""]
Str(chars) == [t |-> "string", s |-> chars, b |-> <<>>, n |-> 0, e |-> ""]
Bytes(bs) == [t |-> "Uint8Array", s |-> <<>>, b |-> bs, n |-> 0, e |-> ""]
Num(k) == [t |-> "bigint", s |-> <<>>, b |-> <<>>, n |-> k, e |-> ""]
Throw(msg) == [t |-> "throw", s |-> <<>>, b |-> <<>>, n |-> 0, e |-> msg]

Thrown(v) == v.t = "throw"

LowerDigits == <<"0", "1", "2", "3", "4", "5", "6", "7", "8", "9",
                 "a", "b", "c", "d", "e", "f">>
UpperDigits == <<"0", "1", "2", "3", "4", "5", "6", "7", "8", "9",
                 "A", "B", "C", "D", "E", "F">>
HexChars == {LowerDigits[i] : i \in 1..16} \cup {UpperDigits[i] : i \in 1..16}
DecChars == {LowerDigits[i] : i \in 1..10}

\* the value of one hexadecimal digit, either letter case
DigitVal(c) == (CHOOSE i \in 1..16 : LowerDigits[i] = c \/ UpperDigits[i] = c) - 1

RECURSIVE DigitsToNat(_, _)
\* the number written by the digits ds in the given base, most significant first
DigitsToNat(ds, base) ==
    IF ds = <<>> THEN 0
    ELSE DigitsToNat(SubSeq(ds, 1, Len(ds) - 1), base) * base + DigitVal(ds[Len(ds)])

RECURSIVE NatToHexDigits(_)
\* BigInt.prototype.toString(16): lowercase, no leading zeros, "0" for zero
NatToHexDigits(k) ==
    IF k < 16 THEN <<LowerDigits[k + 1]>>
    ELSE NatToHexDigits(k \div 16) \o <<LowerDigits[(k % 16) + 1]>>

Prefix0x == <<"0", "x">>

\* viem isHex: /^0x[0-9a-fA-F]*$/ on a string, false on anything else
isHex(v) ==
    /\ v.t = "string"
    /\ Len(v.s) >= 2
    /\ SubSeq(v.s, 1, 2) = Prefix0x
    /\ \A i \in 3..Len(v.s) : v.s[i] \in HexChars

\* viem numberToHex without a size: unsigned, so a negative value is out of range
numberToHex(k) ==
    IF k < 0 THEN Throw("IntegerOutOfRangeError")
    ELSE Str(Prefix0x \o NatToHexDigits(k))

RECURSIVE BytesToHexDigits(_)
BytesToHexDigits(bs) ==
    IF bs = <<>> THEN <<>>
    ELSE <<LowerDigits[(bs[1] \div 16) + 1], LowerDigits[(bs[1] % 16) + 1]>>
             \o BytesToHexDigits(Tail(bs))

\* viem bytesToHex: two lowercase digits per byte
bytesToHex(bs) == Str(Prefix0x \o BytesToHexDigits(bs))

\* the UTF-8 code of a character of the model's strings (all of them ASCII)
CharCode(c) ==
    IF c \in DecChars THEN 48 + DigitVal(c)
    ELSE IF c \in {LowerDigits[i] : i \in 11..16} THEN 87 + DigitVal(c)
    ELSE IF c \in {UpperDigits[i] : i \in 11..16} THEN 55 + DigitVal(c)
    ELSE IF c = "x" THEN 120
    ELSE 103

\* viem stringToHex: the hex of the string's UTF-8 bytes
stringToHex(chars) == bytesToHex([i \in 1..Len(chars) |-> CharCode(chars[i])])

\* viem toHex: dispatches on the runtime type of its argument
toHex(v) ==
    IF v.t = "bigint" THEN numberToHex(v.n)
    ELSE IF v.t = "string" THEN stringToHex(v.s)
    ELSE IF v.t = "Uint8Array" THEN bytesToHex(v.b)
    ELSE Throw("TypeError")

(***************************************************************************)
(* Hex/numeric normalizer.                                                 *)
(***************************************************************************)
\* formatAsHex without its string branch, every defined value going to toHex
\* (not the repository's code)
formatAsHex_reencodesStrings(value) ==
    IF value.t = "undefined" THEN value
    ELSE IF value.t = "string" /\ ~isHex(value)
    THEN Throw("Cannot convert a non-hex string to a hex string")
    ELSE toHex(value)

\* formatAsHex without the isHex test (not the repository's code)
formatAsHex_noValidation(value) ==
    IF value.t = "undefined" \/ value.t = "string" THEN value ELSE toHex(value)

formatAsHex(value) ==
    IF value.t = "undefined" THEN value
    ELSE IF value.t = "string" THEN
        IF ~isHex(value)
        THEN Throw("Cannot convert a non-hex string to a hex string")
        ELSE value
    ELSE toHex(value)

Fields == <<"sender", "nonce", "initCode", "callData", "callGasLimit",
            "verificationGasLimit", "preVerificationGas", "maxFeePerGas",
            "maxPriorityFeePerGas", "paymasterAndData", "signature">>
FieldSet == {Fields[i] : i \in 1..Len(Fields)}

\* the operation no stage has produced yet
NoOp == [k \in FieldSet |-> Undefined]

\* result of a stage: the operation it returns, or the Error it throws
Ok(op) == [ok |-> TRUE, op |-> op, e |-> ""]
Err(msg) == [ok |-> FALSE, op |-> NoOp, e |-> msg]

\* formatUserOpAsHex keeping a field as given when formatAsHex throws on it
\* (not the repository's code)
formatUserOpAsHex_keepsRawFields(userOp) ==
    Ok([k \in FieldSet |->
            IF Thrown(formatAsHex(userOp[k])) THEN userOp[k] ELSE formatAsHex(userOp[k])])

\* the object literal's fields are evaluated in source order: the first throw wins
formatUserOpAsHex(userOp) ==
    LET f == [k \in FieldSet |-> formatAsHex(userOp[k])]
        bad == {i \in 1..Len(Fields) : Thrown(f[Fields[i]])}
    IN IF bad = {} THEN Ok(f)
       ELSE Err(f[Fields[CHOOSE i \in bad : \A j \in bad : i <= j]].e)

(***************************************************************************)
(* Gas buffering policy.                                                   *)
(***************************************************************************)
PRE_VERIFICATION_GAS_BUFFER == 2600
VERIFICATION_GAS_LIMIT_BUFFER == 16000

\* JavaScript truthiness, as the conditional operator and || test it
Truthy(v) ==
    CASE v.t = "undefined" -> FALSE
      [] v.t = "null" -> FALSE
      [] v.t = "string" -> v.s # <<>>
      [] v.t = "bigint" -> v.n # 0
      [] OTHER -> TRUE

\* JavaScript BigInt(v): [ok, n].  A string is a hexadecimal literal (0x and at
\* least one digit) or decimal digits (the empty string is 0n); a typed array goes
\* through its toString(), the comma-joined elements; undefined and null throw.
BigInt(v) ==
    CASE v.t = "bigint" -> [ok |-> TRUE, n |-> v.n]
      [] v.t = "string" ->
            IF isHex(v) /\ Len(v.s) > 2
            THEN [ok |-> TRUE, n |-> DigitsToNat(SubSeq(v.s, 3, Len(v.s)), 16)]
            ELSE IF \A i \in 1..Len(v.s) : v.s[i] \in DecChars
            THEN [ok |-> TRUE, n |-> DigitsToNat(v.s, 10)]
            ELSE [ok |-> FALSE, n |-> 0]
      [] v.t = "Uint8Array" ->
            IF Len(v.b) = 0 THEN [ok |-> TRUE, n |-> 0]
            ELSE IF Len(v.b) = 1 THEN [ok |-> TRUE, n |-> v.b[1]]
            ELSE [ok |-> FALSE, n |-> 0]
      [] OTHER -> [ok |-> FALSE, n |-> 0]

\* the buffer added twice (not the repository's code)
BufferedOrAbsent_twice(v, buffer) ==
    IF ~Truthy(v) THEN Undefined
    ELSE IF ~BigInt(v).ok THEN Throw("Cannot convert to a BigInt")
    ELSE toHex(Num(BigInt(v).n + buffer + buffer))

\* cond ? toHex(BigInt(v) + buffer) : undefined
BufferedOrAbsent(v, buffer) ==
    IF ~Truthy(v) THEN Undefined
    ELSE IF ~BigInt(v).ok THEN Throw("Cannot convert to a BigInt")
    ELSE toHex(Num(BigInt(v).n + buffer))

\* hooks/SmartAccountContext.tsx: the version the mint pipeline imports
bufferUserOpWithVerificationGas(userOp) ==
    LET pre == BufferedOrAbsent(userOp.preVerificationGas, PRE_VERIFICATION_GAS_BUFFER)
        ver == BufferedOrAbsent(userOp.verificationGasLimit,
                                VERIFICATION_GAS_LIMIT_BUFFER)
    IN IF Thrown(pre) THEN Err(pre.e)
       ELSE IF Thrown(ver) THEN Err(ver.e)
       ELSE Ok([userOp EXCEPT !.preVerificationGas = pre,
                              !.verificationGasLimit = ver])

\* v || 0
OrZero(v) == IF Truthy(v) THEN v ELSE Num(0)

\* toHex(BigInt(v || 0) + buffer)
BufferedOrZero(v, buffer) ==
    IF ~BigInt(OrZero(v)).ok THEN Throw("Cannot convert to a BigInt")
    ELSE toHex(Num(BigInt(OrZero(v)).n + buffer))

\* cond ? toHex(v) : undefined
HexOrAbsent(v) == IF Truthy(v) THEN toHex(v) ELSE Undefined

\* lib/userOperations.ts: the version of the same name without a normalizing stage
bufferUserOpWithVerificationGas_userOperations(userOp) ==
    LET nonce == toHex(userOp.nonce)
        maxFee == HexOrAbsent(userOp.maxFeePerGas)
        maxPrio == HexOrAbsent(userOp.maxPriorityFeePerGas)
        pre == BufferedOrZero(userOp.preVerificationGas, PRE_VERIFICATION_GAS_BUFFER)
        ver == BufferedOrZero(userOp.verificationGasLimit, VERIFICATION_GAS_LIMIT_BUFFER)
        parts == <<nonce, maxFee, maxPrio, pre, ver>>
        bad == {i \in 1..Len(parts) : Thrown(parts[i])}
    IN IF bad # {} THEN Err(parts[CHOOSE i \in bad : \A j \in bad : i <= j].e)
       ELSE Ok([userOp EXCEPT !.nonce = nonce,
                              !.maxFeePerGas = maxFee,
                              !.maxPriorityFeePerGas = maxPrio,
                              !.preVerificationGas = pre,
                              !.verificationGasLimit = ver])

(***************************************************************************)
(* Operation encoder and hasher.                                           *)
(***************************************************************************)
BASE_GOERLI_ENTRYPOINT_ADDRESS ==
    Str(<<"0", "x", "5", "F", "F", "1", "3", "7", "D", "4", "b", "0", "F", "D",
          "C", "D", "4", "9", "D", "c", "A", "3", "0", "c", "7", "C", "F", "5",
          "7", "E", "5", "7", "8", "a", "0", "2", "6", "d", "2", "7", "8", "9">>)

\* viem/chains baseGoerli.id
BaseGoerliId == 84531

ToLowerChar(c) ==
    IF c \in {UpperDigits[i] : i \in 11..16} THEN LowerDigits[DigitVal(c) + 1] ELSE c

\* viem isAddress: /^0x[a-fA-F0-9]{40}$/
isAddress(v) == isHex(v) /\ Len(v.s) = 42

\* the 20 bytes of an address slot, written as 40 lowercase digits
AddressSlot(v) == [i \in 1..40 |-> ToLowerChar(v.s[i + 2])]

RECURSIVE PairsToBytes(_)
PairsToBytes(ds) ==
    IF ds = <<>> THEN <<>>
    ELSE <<DigitVal(ds[1]) * 16 + DigitVal(ds[2])>> \o PairsToBytes(SubSeq(ds, 3, Len(ds)))

\* viem hexToBytes: drop 0x, left-pad an odd number of digits with one 0
hexToBytes(chars) ==
    LET ds == SubSeq(chars, 3, Len(chars))
    IN PairsToBytes(IF Len(ds) % 2 = 1 THEN <<"0">> \o ds ELSE ds)

\* a digest: the hash function is taken to be collision-free, so a digest is
\* modelled by the content that was hashed
Digest(content) == [keccak |-> content]
NoDigest == Digest(<<>>)
\* what provider.signMessage resolved to, for which message; none yet
NoSignerResult == [message |-> NoDigest, signature |-> Undefined]

\* viem keccak256 of a field of the operation: [ok, h]
keccak256(v) ==
    IF isHex(v) THEN [ok |-> TRUE, h |-> Digest(hexToBytes(v.s))]
    ELSE IF v.t = "Uint8Array" THEN [ok |-> TRUE, h |-> Digest(v.b)]
    ELSE [ok |-> FALSE, h |-> NoDigest]

\* packUserOp with the callData slot filled from initCode (not the repository's code)
packUserOp_callDataSlotFromInitCode(userOp) ==
    LET ints == [k \in {"nonce", "callGasLimit", "verificationGasLimit",
                        "preVerificationGas", "maxFeePerGas", "maxPriorityFeePerGas"}
                    |-> BigInt(userOp[k])]
        hashes == [k \in {"initCode", "callData", "paymasterAndData"}
                    |-> keccak256(userOp[k])]
    IN IF /\ isAddress(userOp.sender)
          /\ \A k \in DOMAIN ints : ints[k].ok
          /\ \A k \in DOMAIN hashes : hashes[k].ok
       THEN [ok |-> TRUE,
             packed |-> <<AddressSlot(userOp.sender),
                          ints["nonce"].n,
                          hashes["initCode"].h,
                          hashes["initCode"].h,
                          ints["callGasLimit"].n,
                          ints["verificationGasLimit"].n,
                          ints["preVerificationGas"].n,
                          ints["maxFeePerGas"].n,
                          ints["maxPriorityFeePerGas"].n,
                          hashes["paymasterAndData"].h>>]
       ELSE [ok |-> FALSE, packed |-> <<>>]

\* the ten slots of the packed tuple, in schema order: [ok, packed].  An address
\* slot holds the address's bytes, a uint256 slot the integer, a bytes32 slot the
\* digest; a slot whose value cannot be computed or encoded makes the call throw.
packUserOp(userOp) ==
    LET ints == [k \in {"nonce", "callGasLimit", "verificationGasLimit",
                        "preVerificationGas", "maxFeePerGas", "maxPriorityFeePerGas"}
                    |-> BigInt(userOp[k])]
        hashes == [k \in {"initCode", "callData", "paymasterAndData"}
                    |-> keccak256(userOp[k])]
    IN IF /\ isAddress(userOp.sender)
          /\ \A k \in DOMAIN ints : ints[k].ok
          /\ \A k \in DOMAIN hashes : hashes[k].ok
       THEN [ok |-> TRUE,
             packed |-> <<AddressSlot(userOp.sender),
                          ints["nonce"].n,
                          hashes["initCode"].h,
                          hashes["callData"].h,
                          ints["callGasLimit"].n,
                          ints["verificationGasLimit"].n,
                          ints["preVerificationGas"].n,
                          ints["maxFeePerGas"].n,
                          ints["maxPriorityFeePerGas"].n,
                          hashes["paymasterAndData"].h>>]
       ELSE [ok |-> FALSE, packed |-> <<>>]

\* the parameter list packUserOp hands to encodeAbiParameters: name and ABI type
\* of each slot, in order
packUserOpParameters ==
    <<[name |-> "sender", type |-> "address"],
      [name |-> "nonce", type |-> "uint256"],
      [name |-> "initCode", type |-> "bytes32"],
      [name |-> "callData", type |-> "bytes32"],
      [name |-> "callGasLimit", type |-> "uint256"],
      [name |-> "verificationGasLimit", type |-> "uint256"],
      [name |-> "preVerificationGas", type |-> "uint256"],
      [name |-> "maxFeePerGas", type |-> "uint256"],
      [name |-> "maxPriorityFeePerGas", type |-> "uint256"],
      [name |-> "paymasterAndData", type |-> "bytes32"]>>

\* the digest of the packed tuple returned as the hash, without the entry point
\* and the chain id (not the repository's code)
computeUserOpHash_hashesOnce(userOp) ==
    LET p == packUserOp(userOp)
    IN IF ~p.ok THEN [ok |-> FALSE, hash |-> NoDigest]
       ELSE [ok |-> TRUE, hash |-> Digest(p.packed)]

\* [ok, hash]: the digest of (digest of the packed tuple, entry point, chain id)
computeUserOpHash(userOp) ==
    LET p == packUserOp(userOp)
    IN IF ~p.ok THEN [ok |-> FALSE, hash |-> NoDigest]
       ELSE [ok |-> TRUE,
             hash |-> Digest(<<Digest(p.packed),
                               AddressSlot(BASE_GOERLI_ENTRYPOINT_ADDRESS),
                               BaseGoerliId>>)]

(***************************************************************************)
(* Inputs of the bounded checks.                                           *)
(***************************************************************************)
\* characters of the input strings: hex digits of both letter cases, the x of
\* the prefix and a letter that is no hex digit
Alphabet == {"0", "1", "a", "F", "x", "g"}

SeqsUpTo(S, len) == UNION {[1..k -> S] : k \in 0..len}

\* every representation formatAsHex accepts: absent, strings (hex or not), byte
\* sequences, integers (a negative one included, which toHex refuses)
NormalizerInputs ==
    {Undefined}
        \cup {Str(s) : s \in SeqsUpTo(Alphabet, MaxStrLen)}
        \cup {Bytes(bs) : bs \in SeqsUpTo({0, 1, MaxInt, 255}, MaxBytesLen)}
        \cup {Num(k) : k \in (-1)..MaxInt \cup {255, 256, 50000, 70000}}

Rep(c, len) == [i \in 1..len |-> c]

\* an operation as buildUserOperationFromTx returns it in the spec's end-to-end
\* scenario: sender 0xaaa..., nonce 0, empty initCode, a no-argument call, gas
\* estimates 100000 / 70000 / 50000, the dummy paymasterAndData and signature
ScenarioUserOp ==
    [sender |-> Str(Prefix0x \o Rep("a", 40)),
     nonce |-> Num(0),
     initCode |-> Str(Prefix0x),
     callData |-> Str(<<"0", "x", "1", "2", "4", "9", "c", "5", "8", "b">>),
     callGasLimit |-> Num(100000),
     verificationGasLimit |-> Num(70000),
     preVerificationGas |-> Num(50000),
     maxFeePerGas |-> Num(1500),
     maxPriorityFeePerGas |-> Bytes(<<1, 0>>),
     paymasterAndData |-> Str(Prefix0x),
     signature |-> Str(<<"0", "x", "f", "f">>)]

\* a string that is no hex string
NonHex == Str(<<"5", "0", "0", "0", "0">>)

\* the operations given to formatUserOpAsHex: the scenario with its gas fields in
\* every representation (the digitless 0x included, which BigInt refuses), and
\* with each one of the eleven fields a non-hex string
FormatUserOps ==
    {[ScenarioUserOp EXCEPT !.preVerificationGas = pre,
                            !.verificationGasLimit = ver,
                            !.sender = snd,
                            !.nonce = non] :
        pre \in {Num(50000), Str(<<"0", "x", "C", "3", "5", "0">>), Undefined, NonHex},
        ver \in {Num(70000), Str(<<"0", "x", "0", "1", "1", "1", "7", "0">>), Undefined,
                 Str(Prefix0x)},
        snd \in {Str(Prefix0x \o Rep("a", 40)), Str(Prefix0x \o Rep("A", 40))},
        non \in {Num(0), Num(MaxInt), Str(<<"0", "x", "0">>)}}
        \cup {[ScenarioUserOp EXCEPT ![k] = NonHex] : k \in FieldSet}

(***************************************************************************)
(* The normalizer applied to bounded inputs, once and then to its own      *)
(* result.                                                                 *)
(***************************************************************************)
Idle ==
    /\ eoa = "none" /\ smartAccountSigner = "none" /\ smartAccountProvider = "none"
    /\ smartAccountAddress = Undefined /\ smartAccountReady = FALSE /\ cswPc = "idle"
    /\ embeddedWallet = "none" /\ runs = <<>>
    /\ isMinting = FALSE /\ toast = "none"
    /\ pc = "idle" /\ initialUserOp = NoOp /\ formattedUserOp = NoOp
    /\ bufferedUserOp = NoOp /\ userOpWithPaymaster = NoOp /\ signedUserOp = NoOp
    /\ userOpHash = "none" /\ transactionHash = "none" /\ error = ""
    /\ calls = <<>> /\ returned = 0 /\ paymasterRequest = NoOp /\ signerMessage = NoDigest
    /\ signerResult = NoSignerResult
    /\ submittedUserOp = NoOp /\ waitHandle = "none"

FormatInit ==
    /\ Idle
    /\ \/ fn = "formatAsHex" /\ arg \in NormalizerInputs
       \/ fn = "formatUserOpAsHex" /\ arg \in FormatUserOps
    /\ arg2 = Undefined /\ ret = Undefined /\ ret2 = Undefined

ApplyFormatAsHex ==
    /\ fn = "formatAsHex" /\ pc = "idle"
    /\ ret' = formatAsHex(arg)
    /\ pc' = "applied"
    /\ UNCHANGED <<walletVars, pageVars, ioVars, fn, arg, arg2, ret2>>
    /\ UNCHANGED <<initialUserOp, formattedUserOp, bufferedUserOp, userOpWithPaymaster,
                   signedUserOp, userOpHash, transactionHash, error>>

\* the result, when there is one, normalized again
ReapplyFormatAsHex ==
    /\ fn = "formatAsHex" /\ pc = "applied" /\ ~Thrown(ret)
    /\ ret2' = formatAsHex(ret)
    /\ pc' = "reapplied"
    /\ UNCHANGED <<walletVars, pageVars, ioVars, fn, arg, arg2, ret>>
    /\ UNCHANGED <<initialUserOp, formattedUserOp, bufferedUserOp, userOpWithPaymaster,
                   signedUserOp, userOpHash, transactionHash, error>>

ApplyFormatUserOpAsHex ==
    /\ fn = "formatUserOpAsHex" /\ pc = "idle"
    /\ ret' = formatUserOpAsHex(arg)
    /\ pc' = "applied"
    /\ UNCHANGED <<walletVars, pageVars, ioVars, fn, arg, arg2, ret2>>
    /\ UNCHANGED <<initialUserOp, formattedUserOp, bufferedUserOp, userOpWithPaymaster,
                   signedUserOp, userOpHash, transactionHash, error>>

ReapplyFormatUserOpAsHex ==
    /\ fn = "formatUserOpAsHex" /\ pc = "applied" /\ ret.ok
    /\ ret2' = formatUserOpAsHex(ret.op)
    /\ pc' = "reapplied"
    /\ UNCHANGED <<walletVars, pageVars, ioVars, fn, arg, arg2, ret>>
    /\ UNCHANGED <<initialUserOp, formattedUserOp, bufferedUserOp, userOpWithPaymaster,
                   signedUserOp, userOpHash, transactionHash, error>>

FormatNext ==
    \/ ApplyFormatAsHex
    \/ ReapplyFormatAsHex
    \/ ApplyFormatUserOpAsHex
    \/ ReapplyFormatUserOpAsHex

SpecFormat == FormatInit /\ [][FormatNext]_vars

(***************************************************************************)
(* The two versions of the gas buffering policy applied to bounded inputs. *)
(***************************************************************************)
GasFields == {"preVerificationGas", "verificationGasLimit"}

\* operations before buffering: gas estimates absent, as integers and as hex
\* strings (zero and the empty 0x included), other fields in several spellings
BufferUserOps ==
    {[ScenarioUserOp EXCEPT !.preVerificationGas = pre,
                            !.verificationGasLimit = ver,
                            !.nonce = non,
                            !.maxFeePerGas = fee] :
        pre \in {Undefined, Num(50000), Num(0), Str(<<"0", "x", "c", "3", "5", "0">>),
                 Str(<<"0", "x", "0">>), Str(Prefix0x)},
        ver \in {Undefined, Num(70000), Str(<<"0", "x", "1", "1", "1", "7", "0">>)},
        non \in {Num(0), Num(MaxInt), Str(<<"0", "x", "0">>), Str(<<"0", "x", "0", "5">>)},
        fee \in {Undefined, Num(1500), Str(<<"0", "x", "5", "D", "C">>)}}

BufferInit ==
    /\ Idle
    /\ fn \in {"SmartAccountContext", "userOperations"}
    /\ arg \in BufferUserOps
    /\ arg2 = Undefined /\ ret = Undefined /\ ret2 = Undefined

\* neither version assigns to a property of its parameter: arg2, the parameter
\* object after the call, is the object that was passed
ApplyBufferUserOpWithVerificationGas ==
    /\ fn = "SmartAccountContext" /\ pc = "idle"
    /\ ret' = bufferUserOpWithVerificationGas(arg)
    /\ arg2' = arg
    /\ pc' = "applied"
    /\ UNCHANGED <<walletVars, pageVars, ioVars, fn, arg, ret2>>
    /\ UNCHANGED <<initialUserOp, formattedUserOp, bufferedUserOp, userOpWithPaymaster,
                   signedUserOp, userOpHash, transactionHash, error>>

ApplyBufferUserOpWithVerificationGas_userOperations ==
    /\ fn = "userOperations" /\ pc = "idle"
    /\ ret' = bufferUserOpWithVerificationGas_userOperations(arg)
    /\ arg2' = arg
    /\ pc' = "applied"
    /\ UNCHANGED <<walletVars, pageVars, ioVars, fn, arg, ret2>>
    /\ UNCHANGED <<initialUserOp, formattedUserOp, bufferedUserOp, userOpWithPaymaster,
                   signedUserOp, userOpHash, transactionHash, error>>

BufferNext ==
    \/ ApplyBufferUserOpWithVerificationGas
    \/ ApplyBufferUserOpWithVerificationGas_userOperations

SpecBuffer == BufferInit /\ [][BufferNext]_vars

(***************************************************************************)
(* The hasher applied to two operations that differ in one field.          *)
(***************************************************************************)
IntFields == {"nonce", "callGasLimit", "verificationGasLimit", "preVerificationGas",
              "maxFeePerGas", "maxPriorityFeePerGas"}
BytesFields == {"initCode", "callData", "paymasterAndData", "signature"}

IntSpellings ==
    {Str(<<"0", "x", "1">>), Str(<<"0", "x", "0", "1">>), Str(<<"0", "x", "f">>),
     Str(<<"0", "x", "F">>), Str(<<"0", "x", "1", "0">>), Undefined}
BytesSpellings ==
    {Str(Prefix0x), Str(<<"0", "x", "0", "b">>), Str(<<"0", "x", "b">>),
     Str(<<"0", "x", "0", "B">>), Str(<<"0", "x", "a", "b">>), Null}
SenderSpellings ==
    {Str(Prefix0x \o Rep("a", 40)), Str(Prefix0x \o Rep("A", 40)),
     Str(Prefix0x \o Rep("b", 40)), Str(Prefix0x \o Rep("a", 39))}

Spellings(k) ==
    IF k = "sender" THEN SenderSpellings
    ELSE IF k \in IntFields THEN IntSpellings
    ELSE BytesSpellings

\* sponsored operations with every field a hex string
HashUserOps ==
    {[k \in FieldSet |->
        IF k = "sender" THEN snd ELSE IF k \in IntFields THEN int ELSE byt] :
        snd \in {Str(Prefix0x \o Rep("a", 40)), Str(Prefix0x \o Rep("A", 40))},
        int \in {Str(<<"0", "x", "1">>), Str(<<"0", "x", "f">>)},
        byt \in {Str(<<"0", "x", "0", "b">>), Str(<<"0", "x", "a", "b">>)}}

DifferingFields(a, b) == {k \in FieldSet : a[k] # b[k]}

HashInit ==
    /\ Idle
    /\ fn = "computeUserOpHash"
    /\ arg \in HashUserOps
    /\ \E k \in FieldSet : \E v \in Spellings(k) \ {arg[k]} :
            arg2 = [arg EXCEPT ![k] = v]
    /\ ret = Undefined /\ ret2 = Undefined

ApplyComputeUserOpHash ==
    /\ fn = "computeUserOpHash" /\ pc = "idle"
    /\ ret' = computeUserOpHash(arg)
    /\ ret2' = computeUserOpHash(arg2)
    /\ pc' = "applied"
    /\ UNCHANGED <<walletVars, pageVars, ioVars, fn, arg, arg2>>
    /\ UNCHANGED <<initialUserOp, formattedUserOp, bufferedUserOp, userOpWithPaymaster,
                   signedUserOp, userOpHash, transactionHash, error>>

HashNext == ApplyComputeUserOpHash

SpecHash == HashInit /\ [][HashNext]_vars

(***************************************************************************)
(* The smart account context and the dashboard's mint pipeline.            *)
(***************************************************************************)
\* the address provider.getAddress() resolves to
SmartAccountAddress == Str(Prefix0x \o Rep("a", 40))

\* what buildUserOperationFromTx may resolve to: the operations of FormatUserOps,
\* and the scenario with every string up to MaxStrLen as its callData
MintUserOps ==
    FormatUserOps
        \cup {[ScenarioUserOp EXCEPT !.callData = Str(s)] : s \in SeqsUpTo(Alphabet, MaxStrLen)}

\* what the paymaster RPC may resolve to: a sponsorship payload, an empty
\* payload, null
PaymasterResponses == {Str(<<"0", "x", "c", "0", "f", "e">>), Str(Prefix0x), Null}
\* how the paymaster RPC may reject: the paymaster declines, the transport fails
PaymasterErrors == {"SponsorshipDenied", "TransportFailure"}
\* what provider.signMessage may resolve to
Signatures == {Str(<<"0", "x", "5", "1">>), Str(<<"0", "x", "5", "2">>)}
\* the handles the bundler may return, the transaction identifiers it may report
Handles == {"handle1", "handle2"}
Transactions == {"tx1", "tx2"}

StageOrder == <<"buildUserOperationFromTx", "formatUserOpAsHex",
                "bufferUserOpWithVerificationGas", "addPaymasterAndDataToUserOp",
                "computeUserOpHash", "signMessage", "sendUserOperation",
                "waitForUserOperationTransaction">>

PipelineInit ==
    /\ Idle
    /\ fn = "none" /\ arg = Undefined /\ arg2 = Undefined
    /\ ret = Undefined /\ ret2 = Undefined

\* the effect runs once the embedded wallet is found: up to the first await
createSmartWallet ==
    /\ cswPc = "idle"
    /\ embeddedWallet' = "embeddedWallet"
    /\ eoa' = "embeddedWallet"
    /\ cswPc' = "getEthereumProvider"
    /\ UNCHANGED <<smartAccountSigner, smartAccountProvider, smartAccountAddress,
                   smartAccountReady, runs>>
    /\ UNCHANGED <<pageVars, mintVars, ioVars, fnVars>>

\* from the first await to the second
getEthereumProviderResolved ==
    /\ cswPc = "getEthereumProvider"
    /\ smartAccountSigner' = "signer"
    /\ smartAccountProvider' = "provider"
    /\ cswPc' = "getAddress"
    /\ UNCHANGED <<eoa, smartAccountAddress, smartAccountReady, embeddedWallet, runs>>
    /\ UNCHANGED <<pageVars, mintVars, ioVars, fnVars>>

\* from the second await to the end
getAddressResolved ==
    /\ cswPc = "getAddress"
    /\ smartAccountAddress' = SmartAccountAddress
    /\ smartAccountReady' = TRUE
    /\ cswPc' = "done"
    /\ UNCHANGED <<eoa, smartAccountSigner, smartAccountProvider, embeddedWallet, runs>>
    /\ UNCHANGED <<pageVars, mintVars, ioVars, fnVars>>

\* either await rejects: the rest of createSmartWallet does not run
createSmartWalletRejected ==
    /\ cswPc \in {"getEthereumProvider", "getAddress"}
    /\ cswPc' = "rejected"
    /\ UNCHANGED <<eoa, smartAccountSigner, smartAccountProvider, smartAccountAddress,
                   smartAccountReady, embeddedWallet, runs>>
    /\ UNCHANGED <<pageVars, mintVars, ioVars, fnVars>>

\* the rejection of the promise onMint returned: nothing after the throw runs
Fail(msg) ==
    /\ pc' = "error"
    /\ error' = msg

\* a click on the Mint button, which is rendered once the provider and the address
\* are set and disabled while isMinting: onMint up to its first await
onMint ==
    /\ pc \in {"idle", "done"}
    /\ ~isMinting
    /\ smartAccountProvider # "none" /\ smartAccountAddress # Undefined
    /\ isMinting' = TRUE
    /\ toast' = "Minting..."
    /\ pc' = "buildUserOperationFromTx"
    /\ calls' = <<"buildUserOperationFromTx">>
    /\ returned' = 0
    /\ initialUserOp' = NoOp /\ formattedUserOp' = NoOp /\ bufferedUserOp' = NoOp
    /\ userOpWithPaymaster' = NoOp /\ signedUserOp' = NoOp
    /\ userOpHash' = "none" /\ transactionHash' = "none" /\ error' = ""
    /\ paymasterRequest' = NoOp /\ signerMessage' = NoDigest
    /\ signerResult' = NoSignerResult
    /\ submittedUserOp' = NoOp /\ waitHandle' = "none"
    /\ UNCHANGED <<walletVars, fnVars>>

\* buildUserOperationFromTx resolves: formatUserOpAsHex, bufferUserOpWithVerificationGas
\* and the call of addPaymasterAndDataToUserOp up to its await of the RPC request
buildUserOperationFromTxResolved ==
    /\ pc = "buildUserOperationFromTx"
    /\ \E op \in MintUserOps :
        LET formatted == formatUserOpAsHex(op)
            buffered == bufferUserOpWithVerificationGas(formatted.op)
        IN /\ initialUserOp' = op
           /\ IF ~formatted.ok THEN
                 /\ Fail(formatted.e)
                 /\ calls' = calls \o <<"formatUserOpAsHex">>
                 /\ returned' = 1
                 /\ UNCHANGED <<formattedUserOp, bufferedUserOp, paymasterRequest>>
              ELSE IF ~buffered.ok THEN
                 /\ Fail(buffered.e)
                 /\ formattedUserOp' = formatted.op
                 /\ calls' = calls \o <<"formatUserOpAsHex",
                                        "bufferUserOpWithVerificationGas">>
                 /\ returned' = 2
                 /\ UNCHANGED <<bufferedUserOp, paymasterRequest>>
              ELSE
                 /\ formattedUserOp' = formatted.op
                 /\ bufferedUserOp' = buffered.op
                 /\ paymasterRequest' = buffered.op
                 /\ calls' = calls \o <<"formatUserOpAsHex",
                                        "bufferUserOpWithVerificationGas",
                                        "addPaymasterAndDataToUserOp">>
                 /\ returned' = 3
                 /\ pc' = "addPaymasterAndDataToUserOp"
                 /\ UNCHANGED error
    /\ UNCHANGED <<userOpWithPaymaster, signedUserOp, userOpHash, transactionHash>>
    /\ UNCHANGED <<signerMessage, signerResult, submittedUserOp, waitHandle>>
    /\ UNCHANGED <<walletVars, pageVars, fnVars>>

buildUserOperationFromTxRejected ==
    /\ pc = "buildUserOperationFromTx"
    /\ Fail("buildUserOperationFromTx rejected")
    /\ UNCHANGED <<initialUserOp, formattedUserOp, bufferedUserOp, userOpWithPaymaster,
                   signedUserOp, userOpHash, transactionHash>>
    /\ UNCHANGED <<walletVars, pageVars, ioVars, fnVars>>

\* the digest of the hash handed to provider.signMessage instead of the hash
\* (not the repository's code)
paymasterResolved_signsRehash ==
    /\ pc = "addPaymasterAndDataToUserOp"
    /\ \E paymasterResponse \in PaymasterResponses :
        LET withPaymaster ==
                [bufferedUserOp EXCEPT !.paymasterAndData = paymasterResponse]
            hashed == computeUserOpHash(withPaymaster)
        IN /\ userOpWithPaymaster' = withPaymaster
           /\ IF ~hashed.ok THEN
                 /\ Fail("TypeError")
                 /\ calls' = calls \o <<"computeUserOpHash">>
                 /\ returned' = 4
                 /\ UNCHANGED signerMessage
              ELSE
                 /\ signerMessage' = Digest(<<hashed.hash>>)
                 /\ calls' = calls \o <<"computeUserOpHash", "signMessage">>
                 /\ returned' = 5
                 /\ pc' = "signMessage"
                 /\ UNCHANGED error
    /\ UNCHANGED <<initialUserOp, formattedUserOp, bufferedUserOp, signedUserOp,
                   userOpHash, transactionHash>>
    /\ UNCHANGED <<paymasterRequest, signerResult, submittedUserOp, waitHandle>>
    /\ UNCHANGED <<walletVars, pageVars, fnVars>>

\* the paymaster request resolves: the response becomes paymasterAndData as it is,
\* then signUserOp computes the hash and calls provider.signMessage with it
paymasterResolved ==
    /\ pc = "addPaymasterAndDataToUserOp"
    /\ \E paymasterResponse \in PaymasterResponses :
        LET withPaymaster ==
                [bufferedUserOp EXCEPT !.paymasterAndData = paymasterResponse]
            hashed == computeUserOpHash(withPaymaster)
        IN /\ userOpWithPaymaster' = withPaymaster
           /\ IF ~hashed.ok THEN
                 /\ Fail("TypeError")
                 /\ calls' = calls \o <<"computeUserOpHash">>
                 /\ returned' = 4
                 /\ UNCHANGED signerMessage
              ELSE
                 /\ signerMessage' = hashed.hash
                 /\ calls' = calls \o <<"computeUserOpHash", "signMessage">>
                 /\ returned' = 5
                 /\ pc' = "signMessage"
                 /\ UNCHANGED error
    /\ UNCHANGED <<initialUserOp, formattedUserOp, bufferedUserOp, signedUserOp,
                   userOpHash, transactionHash>>
    /\ UNCHANGED <<paymasterRequest, signerResult, submittedUserOp, waitHandle>>
    /\ UNCHANGED <<walletVars, pageVars, fnVars>>

\* the rejection caught and the unsponsored operation signed (not the
\* repository's code)
paymasterRejected_proceeds ==
    /\ pc = "addPaymasterAndDataToUserOp"
    /\ \E e \in PaymasterErrors : error' = e
    /\ computeUserOpHash(bufferedUserOp).ok
    /\ userOpWithPaymaster' = bufferedUserOp
    /\ signerMessage' = computeUserOpHash(bufferedUserOp).hash
    /\ calls' = calls \o <<"computeUserOpHash", "signMessage">>
    /\ returned' = 5
    /\ pc' = "signMessage"
    /\ UNCHANGED <<initialUserOp, formattedUserOp, bufferedUserOp, signedUserOp,
                   userOpHash, transactionHash>>
    /\ UNCHANGED <<paymasterRequest, signerResult, submittedUserOp, waitHandle>>
    /\ UNCHANGED <<walletVars, pageVars, fnVars>>

\* the paymaster declines or the transport fails: the awaited request rejects
paymasterRejected ==
    /\ pc = "addPaymasterAndDataToUserOp"
    /\ \E e \in PaymasterErrors : Fail(e)
    /\ UNCHANGED <<initialUserOp, formattedUserOp, bufferedUserOp, userOpWithPaymaster,
                   signedUserOp, userOpHash, transactionHash>>
    /\ UNCHANGED <<walletVars, pageVars, ioVars, fnVars>>

\* what signUserOp returns once provider.signMessage has resolved to signature:
\* the spread of userOp with signature set
signUserOp(userOp, signature) == [userOp EXCEPT !.signature = signature]

\* the same in lib/userOperations.ts: the spread, every field assigned again
\* from userOp under a type cast, signature set
signUserOp_userOperations(userOp, signature) ==
    [k \in FieldSet |-> IF k = "signature" THEN signature ELSE userOp[k]]

\* the bundler handed the operation as it was before the paymaster answered,
\* with the signature (not the repository's code)
signMessageResolved_submitsUnsponsored ==
    /\ pc = "signMessage"
    /\ \E signature \in Signatures :
        /\ signerResult' = [message |-> signerMessage, signature |-> signature]
        /\ signedUserOp' = signUserOp(userOpWithPaymaster, signature)
        /\ submittedUserOp' = signUserOp(bufferedUserOp, signature)
    /\ calls' = calls \o <<"sendUserOperation">>
    /\ returned' = 6
    /\ pc' = "sendUserOperation"
    /\ UNCHANGED <<initialUserOp, formattedUserOp, bufferedUserOp, userOpWithPaymaster,
                   userOpHash, transactionHash, error>>
    /\ UNCHANGED <<paymasterRequest, signerMessage, waitHandle>>
    /\ UNCHANGED <<walletVars, pageVars, fnVars>>

\* provider.signMessage resolves: signUserOp returns the operation with the
\* signature, and onMint hands it to the bundler
signMessageResolved ==
    /\ pc = "signMessage"
    /\ \E signature \in Signatures :
        /\ signerResult' = [message |-> signerMessage, signature |-> signature]
        /\ signedUserOp' = signUserOp(userOpWithPaymaster, signature)
        /\ submittedUserOp' = signedUserOp'
    /\ calls' = calls \o <<"sendUserOperation">>
    /\ returned' = 6
    /\ pc' = "sendUserOperation"
    /\ UNCHANGED <<initialUserOp, formattedUserOp, bufferedUserOp, userOpWithPaymaster,
                   userOpHash, transactionHash, error>>
    /\ UNCHANGED <<paymasterRequest, signerMessage, waitHandle>>
    /\ UNCHANGED <<walletVars, pageVars, fnVars>>

signMessageRejected ==
    /\ pc = "signMessage"
    /\ Fail("signMessage rejected")
    /\ UNCHANGED <<initialUserOp, formattedUserOp, bufferedUserOp, userOpWithPaymaster,
                   signedUserOp, userOpHash, transactionHash>>
    /\ UNCHANGED <<walletVars, pageVars, ioVars, fnVars>>

\* the handle reported as the transaction without resolving it (not the
\* repository's code)
sendUserOperationResolved_skipsWait ==
    /\ pc = "sendUserOperation"
    /\ \E handle \in Handles :
        /\ userOpHash' = handle
        /\ transactionHash' = handle
        /\ toast' = handle
    /\ isMinting' = FALSE
    /\ returned' = 7
    /\ pc' = "done"
    /\ UNCHANGED <<initialUserOp, formattedUserOp, bufferedUserOp, userOpWithPaymaster,
                   signedUserOp, error>>
    /\ UNCHANGED <<calls, paymasterRequest, signerMessage, signerResult, submittedUserOp,
                   waitHandle>>
    /\ UNCHANGED <<walletVars, fnVars>>

\* the bundler accepts the operation: its handle goes to
\* waitForUserOperationTransaction
sendUserOperationResolved ==
    /\ pc = "sendUserOperation"
    /\ \E handle \in Handles :
        /\ userOpHash' = handle
        /\ waitHandle' = handle
    /\ calls' = calls \o <<"waitForUserOperationTransaction">>
    /\ returned' = 7
    /\ pc' = "waitForUserOperationTransaction"
    /\ UNCHANGED <<initialUserOp, formattedUserOp, bufferedUserOp, userOpWithPaymaster,
                   signedUserOp, transactionHash, error>>
    /\ UNCHANGED <<paymasterRequest, signerMessage, signerResult, submittedUserOp>>
    /\ UNCHANGED <<walletVars, pageVars, fnVars>>

\* a rejected submission sent to the bundler a second time (not the repository's
\* code)
sendUserOperationRejected_retries ==
    /\ pc = "sendUserOperation"
    /\ Len(calls) < 8
    /\ calls' = calls \o <<"sendUserOperation">>
    /\ UNCHANGED <<returned, paymasterRequest, signerMessage, signerResult, submittedUserOp,
                   waitHandle>>
    /\ UNCHANGED <<walletVars, pageVars, mintVars, fnVars>>

sendUserOperationRejected ==
    /\ pc = "sendUserOperation"
    /\ Fail("SubmissionRejected")
    /\ UNCHANGED <<initialUserOp, formattedUserOp, bufferedUserOp, userOpWithPaymaster,
                   signedUserOp, userOpHash, transactionHash>>
    /\ UNCHANGED <<walletVars, pageVars, ioVars, fnVars>>

\* the link built from the bundler's handle instead of the resolved transaction
\* (not the repository's code)
waitForUserOperationTransactionResolved_linksHandle ==
    /\ pc = "waitForUserOperationTransaction"
    /\ \E tx \in Transactions :
        /\ transactionHash' = tx
        /\ toast' = userOpHash
    /\ isMinting' = FALSE
    /\ returned' = 8
    /\ pc' = "done"
    /\ UNCHANGED <<initialUserOp, formattedUserOp, bufferedUserOp, userOpWithPaymaster,
                   signedUserOp, userOpHash, error>>
    /\ UNCHANGED <<calls, paymasterRequest, signerMessage, signerResult, submittedUserOp,
                   waitHandle>>
    /\ UNCHANGED <<walletVars, fnVars>>

\* the operation is included: the toast links the transaction, the button is
\* enabled again
waitForUserOperationTransactionResolved ==
    /\ pc = "waitForUserOperationTransaction"
    /\ \E tx \in Transactions :
        /\ transactionHash' = tx
        /\ toast' = tx
    /\ isMinting' = FALSE
    /\ returned' = 8
    /\ pc' = "done"
    /\ UNCHANGED <<initialUserOp, formattedUserOp, bufferedUserOp, userOpWithPaymaster,
                   signedUserOp, userOpHash, error>>
    /\ UNCHANGED <<calls, paymasterRequest, signerMessage, signerResult, submittedUserOp,
                   waitHandle>>
    /\ UNCHANGED <<walletVars, fnVars>>

waitForUserOperationTransactionRejected ==
    /\ pc = "waitForUserOperationTransaction"
    /\ Fail("waitForUserOperationTransaction rejected")
    /\ UNCHANGED <<initialUserOp, formattedUserOp, bufferedUserOp, userOpWithPaymaster,
                   signedUserOp, userOpHash, transactionHash>>
    /\ UNCHANGED <<walletVars, pageVars, ioVars, fnVars>>

Next ==
    \/ createSmartWallet
    \/ getEthereumProviderResolved
    \/ getAddressResolved
    \/ createSmartWalletRejected
    \/ onMint
    \/ buildUserOperationFromTxResolved
    \/ buildUserOperationFromTxRejected
    \/ paymasterResolved
    \/ paymasterRejected
    \/ signMessageResolved
    \/ signMessageRejected
    \/ sendUserOperationResolved
    \/ sendUserOperationRejected
    \/ waitForUserOperationTransactionResolved
    \/ waitForUserOperationTransactionRejected

Spec == PipelineInit /\ [][Next]_vars

\* the awaits of onMint that do not wait for the paymaster or the bundler: the
\* provider's build of the operation and the embedded wallet's signature
LocalAnswer ==
    \/ buildUserOperationFromTxResolved
    \/ buildUserOperationFromTxRejected
    \/ signMessageResolved
    \/ signMessageRejected

\* the stages that wait for the paymaster or the bundler
RemoteStages == {"addPaymasterAndDataToUserOp", "sendUserOperation",
                 "waitForUserOperationTransaction"}

\* the pipeline with the local answers always arriving; the paymaster and the
\* bundler may stay silent.  onMint sets no timer and passes no abort signal or
\* timeout to any call, so no step of its own is added here.
SpecLive == PipelineInit /\ [][Next]_vars /\ WF_vars(LocalAnswer)

(***************************************************************************)
(* The smart account context when the embedded wallet may change, and its  *)
(* sendSponsoredUserOperation.                                             *)
(***************************************************************************)
\* the embedded wallets useWallets may report, one after the other
Wallets == {"wallet1", "wallet2"}
\* how many createSmartWallet runs a behaviour starts
MaxRuns == 3

\* the WalletClientSigner, the AlchemyProvider and the smart account address that
\* createSmartWallet derives from the wallet it was given
SignerOf(w) == "signer of " \o w
ProviderOf(w) == "provider of " \o w
AddressOf(w) == Str(Prefix0x \o Rep(IF w = "wallet1" THEN "a" ELSE "b", 40))

\* useWallets reports another embedded wallet, or none: embeddedWallet?.address
\* changed, so the effect runs again and, when there is a wallet, calls
\* createSmartWallet with it, which runs up to its first await.  Nothing is
\* reset and no earlier run is cancelled.
embeddedWalletChanged ==
    /\ \E w \in (Wallets \cup {"none"}) \ {embeddedWallet} :
        /\ embeddedWallet' = w
        /\ IF w = "none" THEN UNCHANGED <<eoa, runs>>
           ELSE /\ Len(runs) < MaxRuns
                /\ eoa' = w
                /\ runs' = Append(runs, [eoa |-> w, at |-> "getEthereumProvider"])
    /\ UNCHANGED <<smartAccountSigner, smartAccountProvider, smartAccountAddress,
                   smartAccountReady, cswPc>>
    /\ UNCHANGED <<pageVars, mintVars, ioVars, fnVars>>

\* eoa.getEthereumProvider() of some run resolves: that run goes on to its
\* second await
runGetEthereumProviderResolved ==
    /\ \E i \in DOMAIN runs :
        /\ runs[i].at = "getEthereumProvider"
        /\ smartAccountSigner' = SignerOf(runs[i].eoa)
        /\ smartAccountProvider' = ProviderOf(runs[i].eoa)
        /\ runs' = [runs EXCEPT ![i].at = "getAddress"]
    /\ UNCHANGED <<eoa, smartAccountAddress, smartAccountReady, cswPc, embeddedWallet>>
    /\ UNCHANGED <<pageVars, mintVars, ioVars, fnVars>>

\* provider.getAddress() of some run resolves: that run goes on to its end
runGetAddressResolved ==
    /\ \E i \in DOMAIN runs :
        /\ runs[i].at = "getAddress"
        /\ smartAccountAddress' = AddressOf(runs[i].eoa)
        /\ smartAccountReady' = TRUE
        /\ runs' = [runs EXCEPT ![i].at = "done"]
    /\ UNCHANGED <<eoa, smartAccountSigner, smartAccountProvider, cswPc, embeddedWallet>>
    /\ UNCHANGED <<pageVars, mintVars, ioVars, fnVars>>

\* an await of some run rejects: the rest of that run does not happen
runRejected ==
    /\ \E i \in DOMAIN runs :
        /\ runs[i].at \in {"getEthereumProvider", "getAddress"}
        /\ runs' = [runs EXCEPT ![i].at = "rejected"]
    /\ UNCHANGED <<eoa, smartAccountSigner, smartAccountProvider, smartAccountAddress,
                   smartAccountReady, cswPc, embeddedWallet>>
    /\ UNCHANGED <<pageVars, mintVars, ioVars, fnVars>>

\* the guard of sendSponsoredUserOperation lets the call through: it looks at the
\* provider (twice) and the address, not at smartAccountReady, the signer or eoa
InitialisationGuardPasses ==
    smartAccountProvider # "none" /\ smartAccountAddress # Undefined

\* what buildUserOperationFromTx may resolve to for the request: the scenario's
\* operation, or one with a field that is no hex string
ContextUserOps ==
    {ScenarioUserOp, [ScenarioUserOp EXCEPT !.callData = NonHex]}

\* a consumer of the context calls sendSponsoredUserOperation: the guard, then
\* the call of buildUserOperationFromTx up to its await
sendSponsoredUserOperation ==
    /\ pc \in {"idle", "done", "error"}
    /\ initialUserOp' = NoOp /\ formattedUserOp' = NoOp /\ bufferedUserOp' = NoOp
    /\ userOpWithPaymaster' = NoOp /\ signedUserOp' = NoOp
    /\ userOpHash' = "none" /\ transactionHash' = "none"
    /\ paymasterRequest' = NoOp /\ signerMessage' = NoDigest
    /\ signerResult' = NoSignerResult
    /\ submittedUserOp' = NoOp /\ waitHandle' = "none"
    /\ returned' = 0
    /\ IF InitialisationGuardPasses THEN
            /\ pc' = "buildUserOperationFromTx"
            /\ error' = ""
            /\ calls' = <<"buildUserOperationFromTx">>
       ELSE
            /\ Fail("Smart account has not yet initialized.")
            /\ calls' = <<>>
    /\ UNCHANGED <<walletVars, pageVars, fnVars>>

\* buildUserOperationFromTx resolves and populateWithPaymaster runs up to its
\* await of the paymaster: the operation is normalised, its gas fields are
\* buffered, the sponsorship request is sent
populateWithPaymaster ==
    /\ pc = "buildUserOperationFromTx"
    /\ \E op \in ContextUserOps :
        LET formatted == formatUserOpAsHex(op)
            buffered == bufferUserOpWithVerificationGas(formatted.op)
        IN /\ initialUserOp' = op
           /\ IF ~formatted.ok THEN
                 /\ Fail(formatted.e)
                 /\ calls' = calls \o <<"formatUserOpAsHex">>
                 /\ returned' = 1
                 /\ UNCHANGED <<formattedUserOp, bufferedUserOp, paymasterRequest>>
              ELSE IF ~buffered.ok THEN
                 /\ Fail(buffered.e)
                 /\ formattedUserOp' = formatted.op
                 /\ calls' = calls \o <<"formatUserOpAsHex",
                                        "bufferUserOpWithVerificationGas">>
                 /\ returned' = 2
                 /\ UNCHANGED <<bufferedUserOp, paymasterRequest>>
              ELSE
                 /\ formattedUserOp' = formatted.op
                 /\ bufferedUserOp' = buffered.op
                 /\ paymasterRequest' = buffered.op
                 /\ calls' = calls \o <<"formatUserOpAsHex",
                                        "bufferUserOpWithVerificationGas",
                                        "addPaymasterAndDataToUserOp">>
                 /\ returned' = 3
                 /\ pc' = "addPaymasterAndDataToUserOp"
                 /\ UNCHANGED error
    /\ UNCHANGED <<userOpWithPaymaster, signedUserOp, userOpHash, transactionHash>>
    /\ UNCHANGED <<signerMessage, signerResult, submittedUserOp, waitHandle>>
    /\ UNCHANGED <<walletVars, pageVars, fnVars>>

\* the bundler accepts the operation: sendSponsoredUserOperation returns its handle
bundlerSendUserOperationResolved ==
    /\ pc = "sendUserOperation"
    /\ \E handle \in Handles : userOpHash' = handle
    /\ returned' = 7
    /\ pc' = "done"
    /\ UNCHANGED <<initialUserOp, formattedUserOp, bufferedUserOp, userOpWithPaymaster,
                   signedUserOp, transactionHash, error>>
    /\ UNCHANGED <<calls, paymasterRequest, signerMessage, signerResult, submittedUserOp,
                   waitHandle>>
    /\ UNCHANGED <<walletVars, pageVars, fnVars>>

ContextNext ==
    \/ embeddedWalletChanged
    \/ runGetEthereumProviderResolved
    \/ runGetAddressResolved
    \/ runRejected
    \/ sendSponsoredUserOperation
    \/ buildUserOperationFromTxRejected
    \/ populateWithPaymaster
    \/ paymasterResolved
    \/ paymasterRejected
    \/ signMessageResolved
    \/ signMessageRejected
    \/ bundlerSendUserOperationResolved
    \/ sendUserOperationRejected

SpecContext == PipelineInit /\ [][ContextNext]_vars

(***************************************************************************)
(* Claims about the normalizer (checked under SpecFormat).                 *)
(***************************************************************************)
\* C8: normalization is idempotent: wherever formatAsHex succeeds, formatAsHex of
\* its result is that result; an already-hex string comes back exactly as given;
\* formatUserOpAsHex applied twice equals formatUserOpAsHex applied once.
C8_NormalizationIdempotent ==
    /\ (fn = "formatAsHex" /\ pc = "reapplied") => ret2 = ret
    /\ (fn = "formatAsHex" /\ pc = "applied" /\ isHex(arg)) => ret = arg
    /\ (fn = "formatUserOpAsHex" /\ pc = "reapplied") => ret2 = ret

\* an integer was normalized, and its result normalized again
C8_Witness ==
    /\ fn = "formatAsHex" /\ pc = "reapplied"
    /\ arg = Num(MaxInt) /\ ret = Str(Prefix0x \o NatToHexDigits(MaxInt)) /\ ret2 = ret

IsLowerHex(v) ==
    isHex(v) /\ \A i \in 3..Len(v.s) : v.s[i] \in {LowerDigits[j] : j \in 1..16}

\* C9 as stated: a result that is no failure is absent or a lowercase 0x-prefixed
\* hex string, and is absent exactly when the input is absent.
C9_AsClaimed ==
    (fn = "formatAsHex" /\ pc = "applied" /\ ~Thrown(ret)) =>
        /\ ret = Undefined \/ IsLowerHex(ret)
        /\ ret = Undefined <=> arg = Undefined

\* C9 amended: a result that is no failure is absent or a 0x-prefixed hex string,
\* absent exactly when the input is absent; it is lowercase when the input is a byte
\* sequence or an integer, and a hex string input comes back in the letter case
\* it was given in.
C9_ResultAbsentOrHex ==
    (fn = "formatAsHex" /\ pc = "applied" /\ ~Thrown(ret)) =>
        /\ ret = Undefined \/ isHex(ret)
        /\ ret = Undefined <=> arg = Undefined
        /\ arg.t \in {"Uint8Array", "bigint"} => IsLowerHex(ret)
        /\ arg.t = "string" => ret = arg

\* a hex string with an uppercase digit was normalized
C9_Witness ==
    /\ fn = "formatAsHex" /\ pc = "applied"
    /\ arg = Str(<<"0", "x", "F">>) /\ ret = arg /\ ~IsLowerHex(ret)

(***************************************************************************)
(* Claims about the mint pipeline (checked under Spec).                    *)
(***************************************************************************)
IsPrefix(s, q) == Len(s) <= Len(q) /\ s = SubSeq(q, 1, Len(s))
InCalls(stage) == \E i \in 1..Len(calls) : calls[i] = stage

\* C1: in every run of onMint the stages start in the fixed order build, format,
\* buffer, sponsorship request, hash, sign, submit, resolve; a stage starts only
\* when every stage before it has returned, so at most one is in flight; a run
\* that completes has run all eight, each once.
C1_StagesInOrder ==
    /\ IsPrefix(calls, StageOrder)
    /\ calls = <<>> => returned = 0
    /\ calls # <<>> => returned \in {Len(calls) - 1, Len(calls)}
    /\ pc \in {StageOrder[i] : i \in 1..Len(StageOrder)} =>
            calls[Len(calls)] = pc /\ returned = Len(calls) - 1
    /\ pc = "done" => calls = StageOrder /\ returned = Len(StageOrder)

\* a run went through all eight stages
C1_Witness ==
    pc = "done" /\ calls = StageOrder /\ transactionHash \in Transactions

\* C2: when the sponsorship request fails, the invocation ends in that error, and
\* in it the hasher and the signer were never called and nothing was submitted.
C2_SponsorshipFailureStopsPipeline ==
    error \in PaymasterErrors =>
        /\ pc = "error"
        /\ calls = SubSeq(StageOrder, 1, 4)
        /\ ~InCalls("computeUserOpHash") /\ ~InCalls("signMessage")
        /\ ~InCalls("sendUserOperation")
        /\ userOpWithPaymaster = NoOp /\ signerMessage = NoDigest
        /\ signedUserOp = NoOp /\ submittedUserOp = NoOp

\* the paymaster declined a request carrying the buffered operation
C2_Witness ==
    /\ error = "SponsorshipDenied" /\ pc = "error"
    /\ paymasterRequest = bufferedUserOp /\ paymasterRequest # NoOp

\* C3 as stated: whenever the signer has been invoked, the operation that was
\* hashed has a non-empty paymasterAndData, whatever the paymaster answered.
C3_AsClaimed ==
    InCalls("signMessage") =>
        /\ isHex(userOpWithPaymaster.paymasterAndData)
        /\ Len(userOpWithPaymaster.paymasterAndData.s) > 2

Buffer(k) ==
    IF k = "preVerificationGas" THEN PRE_VERIFICATION_GAS_BUFFER
    ELSE VERIFICATION_GAS_LIMIT_BUFFER

\* the position of a gas field in the packed tuple
Slot(k) == IF k = "preVerificationGas" THEN 7 ELSE 6

\* C4: the gas fields of the sponsorship request are the estimates plus 2600 and
\* 16000, added once, and the hashed, the signed and the submitted operation
\* carry the same two values.
C4_GasBufferedOnce ==
    \A k \in GasFields :
        (InCalls("addPaymasterAndDataToUserOp") /\ initialUserOp[k] # Undefined) =>
            LET expected == BigInt(initialUserOp[k]).n + Buffer(k)
            IN /\ BigInt(paymasterRequest[k]).ok
               /\ BigInt(paymasterRequest[k]).n = expected
               /\ InCalls("computeUserOpHash") =>
                    userOpWithPaymaster[k] = paymasterRequest[k]
               /\ InCalls("signMessage") =>
                    signerMessage.keccak[1].keccak[Slot(k)] = expected
               /\ InCalls("sendUserOperation") =>
                    /\ signedUserOp[k] = paymasterRequest[k]
                    /\ submittedUserOp[k] = paymasterRequest[k]

\* estimates 50000 and 70000 were requested, signed and submitted as 52600 and 86000
C4_Witness ==
    /\ pc = "done"
    /\ initialUserOp.preVerificationGas = Num(50000)
    /\ initialUserOp.verificationGasLimit = Num(70000)
    /\ paymasterRequest.preVerificationGas = Str(<<"0", "x", "c", "d", "7", "8">>)
    /\ paymasterRequest.verificationGasLimit = Str(<<"0", "x", "1", "4", "f", "f", "0">>)
    /\ submittedUserOp.preVerificationGas = paymasterRequest.preVerificationGas
    /\ submittedUserOp.verificationGasLimit = paymasterRequest.verificationGasLimit

HasNonHexString(op) == \E k \in FieldSet : op[k].t = "string" /\ ~isHex(op[k])

\* C7: when any field of the operation is a string that is no hex string,
\* formatUserOpAsHex fails with the encoding error and returns no operation, and
\* no later stage of the pipeline runs.
C7_NonHexStringIsFatal ==
    HasNonHexString(initialUserOp) =>
        /\ pc = "error"
        /\ error = "Cannot convert a non-hex string to a hex string"
        /\ formattedUserOp = NoOp
        /\ calls = SubSeq(StageOrder, 1, 2)
        /\ paymasterRequest = NoOp /\ signerMessage = NoDigest /\ submittedUserOp = NoOp

\* the last of the eleven fields was a non-hex string
C7_Witness ==
    /\ pc = "error"
    /\ initialUserOp = [ScenarioUserOp EXCEPT !.signature = NonHex]
    /\ calls = SubSeq(StageOrder, 1, 2)

(***************************************************************************)
(* Claims about the gas buffering policy (checked under SpecBuffer).       *)
(***************************************************************************)
\* C5: a gas field absent in the input is absent in the output, never zero plus
\* the buffer, and what becomes of one gas field does not depend on the other.
C5_AbsencePropagates ==
    (pc = "applied" /\ ret.ok) =>
        \A k \in GasFields :
            /\ arg[k] = Undefined => ret.op[k] = Undefined
            /\ \A other \in GasFields \ {k} :
                 LET without ==
                        IF fn = "SmartAccountContext"
                        THEN bufferUserOpWithVerificationGas(
                                 [arg EXCEPT ![other] = Undefined])
                        ELSE bufferUserOpWithVerificationGas_userOperations(
                                 [arg EXCEPT ![other] = Undefined])
                 IN without.ok /\ without.op[k] = ret.op[k]

\* C5 for the version of hooks/SmartAccountContext.tsx alone
C5_AbsencePropagates_SmartAccountContext ==
    fn = "SmartAccountContext" => C5_AbsencePropagates

\* C6: every field other than the two gas fields has in the output exactly the
\* value it had in the input, and the input operation is not modified.
C6_OtherFieldsUnchanged ==
    (pc = "applied" /\ ret.ok) =>
        /\ \A k \in FieldSet \ GasFields : ret.op[k] = arg[k]
        /\ arg2 = arg

\* C6 for the version of hooks/SmartAccountContext.tsx alone
C6_OtherFieldsUnchanged_SmartAccountContext ==
    fn = "SmartAccountContext" => C6_OtherFieldsUnchanged

(***************************************************************************)
(* Claims about the hasher (checked under SpecHash).                       *)
(***************************************************************************)
\* whether two values of field k put the same content in the packed tuple
SameContent(k, a, b) ==
    IF k = "sender" THEN AddressSlot(a) = AddressSlot(b)
    ELSE IF k \in IntFields THEN BigInt(a).n = BigInt(b).n
    ELSE hexToBytes(a.s) = hexToBytes(b.s)

\* C10 as stated: two operations that differ in exactly one field have different
\* final hashes.
C10_AsClaimed ==
    (pc = "applied" /\ ret.ok /\ ret2.ok /\ Cardinality(DifferingFields(arg, arg2)) = 1)
        => ret.hash # ret2.hash

\* C10 amended: two operations that differ in exactly one field have different
\* final hashes exactly when that field is one of the ten packed fields (any but
\* signature) and its two values encode different content; signature is not
\* bound, and two hex spellings of one address, integer or byte sequence hash alike.
C10_PackedContentBound ==
    (pc = "applied" /\ ret.ok /\ ret2.ok) =>
        \A k \in DifferingFields(arg, arg2) :
            ret.hash = ret2.hash <=>
                (k = "signature" \/ SameContent(k, arg[k], arg2[k]))

\* two operations whose callData differ by content were hashed
C10_Witness ==
    /\ pc = "applied" /\ ret.ok /\ ret2.ok
    /\ DifferingFields(arg, arg2) = {"callData"}
    /\ ~SameContent("callData", arg.callData, arg2.callData)
    /\ ret.hash # ret2.hash

\* what encodeAbiParameters puts in the slot of parameter p for operation op
SlotValue(p, op) ==
    IF p.type = "address" THEN AddressSlot(op[p.name])
    ELSE IF p.type = "uint256" THEN BigInt(op[p.name]).n
    ELSE keccak256(op[p.name]).h

SlotsOfType(t) ==
    {i \in DOMAIN packUserOpParameters : packUserOpParameters[i].type = t}

\* the packed tuple of op has one slot per parameter, each holding the value of
\* the parameter's type computed from the field of the parameter's name
PackedAsDeclared(op) ==
    LET packed == packUserOp(op).packed
    IN /\ Len(packed) = 10
       /\ \A i \in 1..10 : packed[i] = SlotValue(packUserOpParameters[i], op)

\* the hash returned for op is the digest of (digest of the packed tuple, entry
\* point address, chain id)
HashedTwice(op, r) ==
    r.hash = Digest(<<Digest(packUserOp(op).packed),
                      AddressSlot(BASE_GOERLI_ENTRYPOINT_ADDRESS), BaseGoerliId>>)

\* C11 as stated: the packed tuple has ten slots, the sender address first, then
\* seven unsigned 256-bit integer slots interleaved with two hash slots.
C11_AsClaimed ==
    (pc = "applied" /\ ret.ok) =>
        /\ PackedAsDeclared(arg)
        /\ SlotsOfType("address") = {1}
        /\ Cardinality(SlotsOfType("uint256")) = 7
        /\ Cardinality(SlotsOfType("bytes32")) = 2

\* C11 amended: packUserOp encodes exactly ten slots in a fixed order: the sender
\* address, then six unsigned 256-bit integer slots (nonce, callGasLimit,
\* verificationGasLimit, preVerificationGas, maxFeePerGas, maxPriorityFeePerGas)
\* interleaved with three hash slots, one each for initCode, callData and
\* paymasterAndData, every one the digest of that field's bytes alone;
\* computeUserOpHash is the digest of (digest of the packed tuple, entry-point
\* address, chain id).
C11_TenSlotsHashedTwice ==
    /\ (pc = "applied" /\ ret.ok) =>
            /\ PackedAsDeclared(arg)
            /\ HashedTwice(arg, ret)
    /\ (pc = "applied" /\ ret2.ok) =>
            /\ PackedAsDeclared(arg2)
            /\ HashedTwice(arg2, ret2)
    /\ SlotsOfType("address") = {1}
    /\ SlotsOfType("uint256") = {2, 5, 6, 7, 8, 9}
    /\ SlotsOfType("bytes32") = {3, 4, 10}
    /\ \A k \in {"initCode", "callData", "paymasterAndData"} :
            \E i \in SlotsOfType("bytes32") : packUserOpParameters[i].name = k

\* an operation whose callData and initCode differ was hashed: their two slots
\* hold different digests
C11_Witness ==
    /\ pc = "applied" /\ ret2.ok
    /\ arg2.initCode # arg2.callData
    /\ packUserOp(arg2).packed[3] = Digest(hexToBytes(arg2.initCode.s))
    /\ packUserOp(arg2).packed[4] = Digest(hexToBytes(arg2.callData.s))
    /\ packUserOp(arg2).packed[3] # packUserOp(arg2).packed[4]

(***************************************************************************)
(* Claims about signing and submission (checked under Spec).               *)
(***************************************************************************)
\* C12: signUserOp (either version) returns an operation whose every field
\* except signature equals the field of its input, and the operation passed to
\* sendUserOperation is field for field the operation signUserOp returned: its
\* gas fields and paymasterAndData are those the signed hash was computed over.
C12_SignedOperationUnchanged ==
    returned >= 6 =>
        /\ \A k \in FieldSet \ {"signature"} : signedUserOp[k] = userOpWithPaymaster[k]
        /\ signedUserOp.signature \in Signatures
        /\ signUserOp_userOperations(userOpWithPaymaster, signedUserOp.signature)
                = signedUserOp
        /\ submittedUserOp = signedUserOp
        /\ computeUserOpHash(submittedUserOp).ok
        /\ computeUserOpHash(submittedUserOp).hash = signerMessage

\* a sponsored operation was signed and the bundler accepted it
C12_Witness ==
    /\ pc = "waitForUserOperationTransaction"
    /\ userOpWithPaymaster.paymasterAndData = Str(<<"0", "x", "c", "0", "f", "e">>)
    /\ bufferedUserOp.paymasterAndData # userOpWithPaymaster.paymasterAndData
    /\ signedUserOp.signature \in Signatures
    /\ submittedUserOp = signedUserOp

\* how many times stage was called in this invocation
TimesCalled(stage) == Cardinality({i \in DOMAIN calls : calls[i] = stage})

\* C13: the value handed to provider.signMessage is computeUserOpHash of the
\* operation addPaymasterAndDataToUserOp returned (the buffered operation with
\* the paymaster's response as paymasterAndData), computed once and passed on as
\* it is, and the signature attached to the operation is what the signer
\* answered for that value.
C13_SignsExactDigest ==
    /\ InCalls("signMessage") =>
            /\ \A k \in FieldSet \ {"paymasterAndData"} :
                    userOpWithPaymaster[k] = bufferedUserOp[k]
            /\ userOpWithPaymaster.paymasterAndData \in PaymasterResponses
            /\ computeUserOpHash(userOpWithPaymaster).ok
            /\ signerMessage = computeUserOpHash(userOpWithPaymaster).hash
            /\ TimesCalled("computeUserOpHash") = 1
            /\ TimesCalled("signMessage") = 1
    /\ ~InCalls("signMessage") => signerMessage = NoDigest
    /\ signedUserOp # NoOp =>
            /\ signerResult.message = signerMessage
            /\ signerResult.signature \in Signatures
            /\ signedUserOp.signature = signerResult.signature

\* the signer answered for the hash of a sponsored operation and its answer was
\* attached
C13_Witness ==
    /\ pc = "sendUserOperation"
    /\ userOpWithPaymaster.paymasterAndData = Str(<<"0", "x", "c", "0", "f", "e">>)
    /\ signerResult.message = computeUserOpHash(userOpWithPaymaster).hash
    /\ signerResult.message # computeUserOpHash(bufferedUserOp).hash
    /\ signedUserOp.signature = signerResult.signature

(***************************************************************************)
(* Claims about termination (checked under SpecLive).                      *)
(***************************************************************************)
\* C14 as stated: every invocation that waits for the paymaster or the bundler
\* eventually terminates, with a result or an error, even if the remote service
\* never answers.
C14_AsClaimed == (pc \in RemoteStages) ~> (pc \in {"done", "error"})

(***************************************************************************)
(* Claims about submission and confirmation (checked under Spec).          *)
(***************************************************************************)
\* C15: waitForUserOperationTransaction is called only after sendUserOperation
\* returned a handle, and with exactly that handle; until it resolves the toast
\* still shows the loading message and no transaction is known; the success link
\* carries the transaction identifier the resolve call returned and nothing else.
C15_TransactionOnlyFromResolvedHandle ==
    /\ InCalls("waitForUserOperationTransaction") =>
            /\ returned >= 7
            /\ userOpHash \in Handles
            /\ waitHandle = userOpHash
    /\ ~InCalls("waitForUserOperationTransaction") => waitHandle = "none"
    /\ pc # "done" => (transactionHash = "none" /\ toast \in {"none", "Minting..."})
    /\ pc = "done" =>
            /\ returned = 8
            /\ transactionHash \in Transactions
            /\ toast = transactionHash

\* a run was confirmed: the resolve call was given the handle submission returned
\* and the link shows the transaction it resolved to
C15_Witness ==
    /\ pc = "done"
    /\ waitHandle = "handle2" /\ userOpHash = "handle2"
    /\ transactionHash = "tx1" /\ toast = "tx1"

(***************************************************************************)
(* Claims about failures (checked under Spec).                             *)
(***************************************************************************)
\* the stage an invocation that failed was in
FailedStage == calls[Len(calls)]

\* C16: within one invocation the sponsorship request, the signer and the
\* submission are each called at most once; a failure of any of them ends the
\* invocation with that error: the failed stage is the last one started, and
\* nothing of the invocation changes afterwards.
C16_FailureEndsInvocation ==
    /\ [](\A i \in 1..Len(StageOrder) : TimesCalled(StageOrder[i]) <= 1)
    /\ [](pc = "error" =>
            /\ error # ""
            /\ Len(calls) = returned + 1
            /\ FailedStage = "addPaymasterAndDataToUserOp" => error \in PaymasterErrors
            /\ FailedStage = "signMessage" => error = "signMessage rejected"
            /\ FailedStage = "sendUserOperation" => error = "SubmissionRejected"
            /\ signedUserOp = NoOp => submittedUserOp = NoOp
            /\ userOpHash = "none" => waitHandle = "none"
            /\ transactionHash = "none")
    /\ [][pc = "error" => UNCHANGED <<mintVars, ioVars>>]_vars

\* the bundler rejected the submission: the invocation ended there with that
\* error, the signer and the bundler called once
C16_Witness ==
    /\ pc = "error" /\ error = "SubmissionRejected"
    /\ FailedStage = "sendUserOperation"
    /\ TimesCalled("signMessage") = 1 /\ TimesCalled("sendUserOperation") = 1
    /\ ~InCalls("waitForUserOperationTransaction")

(***************************************************************************)
(* Claims about the smart account context (checked under SpecContext).     *)
(***************************************************************************)
\* eoa, signer, provider and address all come from the embedded wallet that
\* useWallets reports now
OfCurrentWallet ==
    /\ embeddedWallet # "none"
    /\ eoa = embeddedWallet
    /\ smartAccountSigner = SignerOf(embeddedWallet)
    /\ smartAccountProvider = ProviderOf(embeddedWallet)
    /\ smartAccountAddress = AddressOf(embeddedWallet)

\* C17 as stated: whenever smartAccountReady is true, eoa, smartAccountSigner,
\* smartAccountProvider and smartAccountAddress all belong to the current
\* embedded wallet, and the guard of sendSponsoredUserOperation never passes
\* with state of an earlier wallet.
C17_AsClaimed ==
    (smartAccountReady \/ InitialisationGuardPasses) => OfCurrentWallet

\* the same for the states in which the last run started has ended and no run
\* is in flight (also violated: a run of an earlier wallet that resolves last
\* leaves its address under the later wallet's provider)
C17_AsClaimed_NoRunInFlight ==
    (/\ smartAccountReady
     /\ embeddedWallet # "none"
     /\ \A i \in DOMAIN runs : runs[i].at = "done") => OfCurrentWallet

(***************************************************************************)
(* Claims about the Mint button (checked under Spec).                      *)
(***************************************************************************)
\* C18 as stated: an onMint invocation that set isMinting to true has set it back
\* to false once it has ended, whether it succeeded or a stage failed.
C18_AsClaimed == pc \in {"done", "error"} => ~isMinting

\* the second half of C18, which holds: onMint starts only while isMinting is
\* false, so at most one pipeline of the page is in flight
C18_OnePipelineAtATime ==
    [][(pc' = "buildUserOperationFromTx" /\ pc # "buildUserOperationFromTx")
            => (~isMinting /\ isMinting')]_vars

====
